---------------------------- MODULE Spec2Model ----------------------------
(***************************************************************************)
(* State-machine model of meet/tf.py: the general Fourier family transform *)
(* gft (with its sampling schemes _dyadic and _full_sampling) and the      *)
(* regridding step interpolate_gft.                                        *)
(*                                                                         *)
(* Numbers.  Frequencies, bin indices and lengths are integers, as in the  *)
(* code.  Signal samples are exact rationals kept as integer numerators    *)
(* over the common denominator SigDen(N) = HannDen * N; a time coordinate  *)
(* is the exact rational num/den.  The spectrum of the signal is not       *)
(* computed: a voice sample is the exact value 0 when the transformed      *)
(* signal is identically zero (FFT, product and inverse FFT of zeros are   *)
(* zeros) and an opaque value named by (centre, index) otherwise.          *)
(*                                                                         *)
(* Libraries.  The module is Python 2 code (xrange, true division from     *)
(* __future__); the array library is the one it ran on: a float slice      *)
(* bound such as hann_N/2 is truncated to an integer, arange of a float    *)
(* step has ceil((stop - start)/step) elements, ifft of an empty array     *)
(* raises ValueError, and interp1d sorts its sample points and needs two   *)
(* of them.                                                                *)
(***************************************************************************)
EXTENDS Integers, Sequences, FiniteSets

\* ---------------------------------------------------------------- bounds
MaxN == 12
MaxAmp == 1
MaxDrop == 1
MaxDim == 2
MaxStep == 2

\* A length at which the floating-point length of the time axis of a band
\* differs from the number of samples of the band (see ArangeLen).
LongLens == {61}

\* ------------------------------------------------------------ generic helpers
RECURSIVE SumSeq(_)
SumSeq(s) == IF s = <<>> THEN 0 ELSE Head(s) + SumSeq(Tail(s))

RECURSIVE Pow2(_)
Pow2(n) == IF n <= 0 THEN 1 ELSE 2 * Pow2(n - 1)

Range(s) == {s[i] : i \in DOMAIN s}

Reverse(s) == [i \in 1..Len(s) |-> s[Len(s) + 1 - i]]

Negate(s) == [i \in 1..Len(s) |-> -1 * s[i]]

MinOf(s) == CHOOSE m \in Range(s) : \A v \in Range(s) : m <= v

MaxOf(s) == CHOOSE m \in Range(s) : \A v \in Range(s) : m >= v

\* numpy.sort of an integer sequence (insertion sort)
RECURSIVE Insert(_, _)
Insert(v, s) ==
    IF s = <<>> THEN <<v>>
    ELSE IF v <= Head(s) THEN <<v>> \o s
    ELSE <<Head(s)>> \o Insert(v, Tail(s))

RECURSIVE Sort(_)
Sort(s) == IF s = <<>> THEN <<>> ELSE Insert(Head(s), Sort(Tail(s)))

\* numpy.fft.fftfreq(N, d = 1./N): 0, 1, ..., (N-1)//2, -(N//2), ..., -1
fftfreq(N) == [i \in 1..N |-> IF i - 1 <= (N - 1) \div 2 THEN i - 1 ELSE i - 1 - N]

\* numpy.roll(a, shift): the element at index i moves to (i + shift) mod n
roll(a, shift) == [i \in 1..Len(a) |-> a[((i - 1 - shift) % Len(a)) + 1]]

\* smallest L with 2^L >= N: ceil(log2(N)) for N >= 1
RECURSIVE CeilLog2(_)
CeilLog2(N) == IF N <= 1 THEN 0 ELSE 1 + CeilLog2((N + 1) \div 2)

\* ------------------------------------------------------------ sampling schemes
\* variant of dyadic_start: the powers of two taken from arange(1, n + 1)
dyadic_start_shifted(N) ==
    LET n == CeilLog2(N) - 1
    IN  <<0>> \o [j \in 1..(IF n > 0 THEN n ELSE 0) |-> Pow2(j)]

\* _dyadic: f_start = [0] + list(2**arange(int(ceil(log2(N)) - 1)))
dyadic_start(N) ==
    LET n == CeilLog2(N) - 1
    IN  <<0>> \o [j \in 1..(IF n > 0 THEN n ELSE 0) |-> Pow2(j - 1)]

\* f_centre = where(f_start < 2, f_start + 1, int(1.5*f_start + 1))
dyadic_centre(N) ==
    LET fs == dyadic_start(N)
    IN  [i \in 1..Len(fs) |-> IF fs[i] < 2 THEN fs[i] + 1 ELSE (3 * fs[i]) \div 2 + 1]

\* variant of dyadic_width: every band one bin wide
dyadic_width_unit(N) == [i \in 1..Len(dyadic_start(N)) |-> 1]

\* f_width = where(f_start < 2, 1, f_start)
dyadic_width(N) ==
    LET fs == dyadic_start(N)
    IN  [i \in 1..Len(fs) |-> IF fs[i] < 2 THEN 1 ELSE fs[i]]

\* f_end = where(f_start + f_width <= N, f_start + f_width, N)
dyadic_end(N) ==
    LET fs == dyadic_start(N)
        fw == dyadic_width(N)
    IN  [i \in 1..Len(fs) |-> IF fs[i] + fw[i] <= N THEN fs[i] + fw[i] ELSE N]

\* _full_sampling: f_centre = sort(fftfreq(N, 1./N))
full_centre(N) == Sort(fftfreq(N))

\* f_start = ones_like(f_centre) * f_centre.min() - 1
full_start(N) == [i \in 1..N |-> MinOf(full_centre(N)) - 1]

\* variant of full_end: the + 1 left out
full_end_tight(N) == [i \in 1..N |-> MaxOf(full_centre(N))]

\* f_end = ones_like(f_centre) * f_centre.max() + 1
full_end(N) == [i \in 1..N |-> MaxOf(full_centre(N)) + 1]


\* ------------------------------------------------------------ numeric model
\* scipy.signal.hanning(H) as numerators over HannDen, for the even lengths
\* H = int(0.1*N) rounded up to even that arise for N < 50:
\* hanning(0) = [], hanning(2) = [0, 0], hanning(4) = [0, .75, .75, 0]
HannDen == 4

Hanning(H) == IF H = 0 THEN <<>> ELSE IF H = 2 THEN <<0, 0>> ELSE <<0, 3, 3, 0>>

\* hann_N = int(0.1*N); if hann_N % 2 != 0: hann_N += 1
HannN(N) == IF (N \div 10) % 2 /= 0 THEN N \div 10 + 1 ELSE N \div 10

\* common denominator of the samples of a signal of length N
SigDen(N) == HannDen * N

\* first (1-based) position of the slice a[-h:] of a sequence of length len;
\* a[-0.0:] is a[0:], the whole sequence
TailStart(len, h) == IF h = 0 \/ h >= len THEN 1 ELSE len - h + 1

\* numpy broadcasting of two 1-d operands of lengths a and b
BroadcastOk(a, b) == a = b \/ a = 1 \/ b = 1

BroadcastLen(a, b) == IF a = 1 THEN b ELSE a

\* (N, M) for which the double N/(N/float(M)) lies above M, so that
\* arange(0, N, N/float(M)), of length ceil(N/t_step), has M + 1 elements
\* (IEEE-754 double division, tabulated for N <= 22 and N in 61..62)
FloatRoundsUp ==
    { <<15, 13>>, <<17, 7>>, <<17, 14>>, <<21, 15>>, <<22, 15>>,
      <<61, 7>>, <<61, 14>>, <<61, 23>>, <<61, 27>>, <<61, 28>>, <<61, 46>>,
      <<61, 54>>, <<61, 56>>, <<61, 59>>, <<62, 29>>, <<62, 51>>, <<62, 58>> }

\* len(arange(0, N, t_step)) for t_step = N/float(M), M >= 1
ArangeLen(N, M) == IF <<N, M>> \in FloatRoundsUp THEN M + 1 ELSE M

\* ------------------------------------------------------------ gft: band layout
\* f_centre = f_centre[f_centre >= 0]
KeepNonNegative(fc) == SelectSeq(fc, LAMBDA c : c >= 0)

\* variant of NeedsMirror: the flag inverted
NeedsMirror_inverted(fullFlag, fc) == ~fullFlag /\ MinOf(fc) >= 0

\* the condition of line 149 on negative-frequency completion
NeedsMirror(fullFlag, fc) == fullFlag /\ MinOf(fc) >= 0

\* hstack([a, a[1:][::-1]*-1]) when f_centre[0] == 0,
\* hstack([a[::-1]*-1, a]) otherwise
MirrorSeq(zeroFirst, a) ==
    IF zeroFirst THEN a \o Negate(Reverse(Tail(a)))
    ELSE Negate(Reverse(a)) \o a

\* the three band arrays after lines 146-158
BandLayout(samp, fullFlag, N) ==
    LET fc0 == IF samp = "dyadic" THEN dyadic_centre(N) ELSE full_centre(N)
        fs0 == IF samp = "dyadic" THEN dyadic_start(N) ELSE full_start(N)
        fe0 == IF samp = "dyadic" THEN dyadic_end(N) ELSE full_end(N)
        fc1 == IF samp = "full" /\ ~fullFlag THEN KeepNonNegative(fc0) ELSE fc0
        zf  == fc1[1] = 0
    IN  IF NeedsMirror(fullFlag, fc1)
        THEN [centre |-> MirrorSeq(zf, fc1), start |-> MirrorSeq(zf, fs0),
              end |-> MirrorSeq(zf, fe0)]
        ELSE [centre |-> fc1, start |-> fs0, end |-> fe0]

\* variant of InBand: a wrapped band takes the complement of [e, s)
InBand_complement(fr, s, e) ==
    IF s > e THEN ~(fr >= e /\ fr < s) ELSE fr >= s /\ fr < e

\* the range test of lines 163-168 on one rolled frequency value
InBand(fr, s, e) ==
    IF s > e THEN fr < s /\ fr >= e ELSE fr >= s /\ fr < e

\* indices = where(...)[0] on freqs_r = roll(freqs, -f_centre[k]); 0-based
Indices(N, c, s, e) ==
    LET freqs_r == roll(fftfreq(N), -1 * c)
    IN  {i \in 0..(N - 1) : InBand(freqs_r[i + 1], s, e)}

\* the frequency bins a band selects: the rolled frequencies at its indices
BandBins(N, c, s, e) ==
    LET freqs_r == roll(fftfreq(N), -1 * c)
    IN  {freqs_r[i + 1] : i \in Indices(N, c, s, e)}

\* coords = vstack([f_now, t_now]) with t_now = arange(0, N, t_step) + t_step/2
\* and t_step = N/float(M): column j is (c, (2j + 1) N / (2 M))
BandCoords(N, c, M) ==
    [j \in 1..ArangeLen(N, M) |-> [f |-> c, num |-> (2 * j - 1) * N, den |-> 2 * M]]

\* the M samples s of one band: the mean for the zero band (lines 169-174),
\* the inverse FFT of the windowed, shifted spectrum otherwise (175-184)
BandSamples(c, M, mean, ftZero) ==
    [j \in 1..M |->
        IF c = 0 THEN [f |-> c, j |-> j, exact |-> TRUE, num |-> mean.num, den |-> mean.den]
        ELSE IF ftZero THEN [f |-> c, j |-> j, exact |-> TRUE, num |-> 0, den |-> 1]
        ELSE [f |-> c, j |-> j, exact |-> FALSE, num |-> 0, den |-> 1]]


\* ------------------------------------------------------------ gft: signal steps
\* the input as numerators over SigDen(N)
Scaled(xs) == [i \in 1..Len(xs) |-> SigDen(Len(xs)) * xs[i]]

\* _signal.detrend(sig, axis=0, type='constant'): subtract the mean
Detrended(s) == [i \in 1..Len(s) |-> s[i] - SumSeq(s) \div Len(s)]

\* sig[:hann_N/2] = hann[:hann_N/2] * sig[:hann_N/2]
TaperHead(s, H) ==
    [i \in 1..Len(s) |->
        IF i <= H \div 2 THEN (Hanning(H)[i] * s[i]) \div HannDen ELSE s[i]]

\* the operand lengths of hann[-hann_N/2:] * sig[-hann_N/2:]
TailHannLen(H) == H - TailStart(H, H \div 2) + 1

TailSigLen(n, H) == n - TailStart(n, H \div 2) + 1

\* the product broadcasts and fits the slice it is assigned to
TaperTailOk(n, H) ==
    /\ BroadcastOk(TailHannLen(H), TailSigLen(n, H))
    /\ LET r == BroadcastLen(TailHannLen(H), TailSigLen(n, H))
       IN  r = TailSigLen(n, H) \/ r = 1

\* sig[-hann_N/2:] = hann[-hann_N/2:] * sig[-hann_N/2:]
TaperTail(s, H) ==
    LET ss == TailStart(Len(s), H \div 2)
        hs == TailStart(H, H \div 2)
    IN  [i \in 1..Len(s) |->
            IF i >= ss
            THEN (Hanning(H)[IF TailHannLen(H) = 1 THEN hs ELSE hs + i - ss] * s[i]) \div HannDen
            ELSE s[i]]

\* sig.mean(axis=0) as an exact rational
Mean(s) == [num |-> SumSeq(s), den |-> Len(s) * SigDen(Len(s))]

\* a name left as a string is not callable
Callable(fn) == fn \in {"_gaussian_ft", "_dyadic", "_full_sampling"}

\* lines 138-141: the dispatch on the names
ResolveWindow(w) == IF w = "gaussian" THEN "_gaussian_ft" ELSE w

ResolveSampling(sm) ==
    IF sm = "dyadic" THEN "_dyadic" ELSE IF sm = "full" THEN "_full_sampling" ELSE sm

SchemeOf(fn) == IF fn = "_dyadic" THEN "dyadic" ELSE "full"

\* ------------------------------------------------------------ state
VARIABLES
    pc,        \* position of the caller: inside gft, inside interpolate_gft
    err,       \* the exception that ended the call, "none" otherwise
    x,         \* gft argument sig (integer samples)
    window,    \* gft argument window, then the resolved window function
    sampling,  \* gft argument sampling, then the resolved scheme function
    full,      \* gft argument full
    hanning,   \* gft argument hanning
    sig,       \* local sig before the FFT, numerators over SigDen(N)
    analytic,  \* sig has been replaced by its analytic signal
    sig_mean,  \* local sig_mean
    ft,        \* the FFT of sig: "none" (not taken), "zero", "nonzero"
    f_centre, f_start, f_end,
    k,         \* loop index of the band loop, 1-based
    Coords,    \* columns of Coords
    S          \* samples of S

gftVars == <<x, window, sampling, full, hanning, sig, analytic, sig_mean, ft,
             f_centre, f_start, f_end, k, Coords, S>>

\* state of interpolate_gft
VARIABLES
    iS,            \* argument S
    IM_shape,      \* argument IM_shape = (frequency bins, time bins)
    kindf, kindt,  \* arguments kindf, kindt
    f,             \* distinct frequencies in order of first occurrence
    f_order,       \* argsort(f)
    f_indices,     \* run boundaries, 0-based
    wanted_times, wanted_freqs,
    IM_temp,       \* rows interpolated along time so far
    ik,            \* loop index of the time loop, 1-based
    IM             \* the interpolated matrix

interpVars == <<iS, IM_shape, kindf, kindt, f, f_order, f_indices,
                wanted_times, wanted_freqs, IM_temp, ik, IM>>

N == Len(x)

\* ------------------------------------------------------------ inputs
\* piecewise-constant signals: a on the first p samples, b on the rest
Signals(n) ==
    {[i \in 1..n |-> IF i <= p THEN a ELSE b] :
        a \in 0..MaxAmp, b \in 0..MaxAmp, p \in 0..(IF n - 1 < MaxStep THEN n - 1 ELSE MaxStep)}

LongSignals(n) == {[i \in 1..n |-> 1], [i \in 1..n |-> IF i <= 1 THEN 0 ELSE 1]}

WindowNames == {"gaussian", "boxcar"}

SamplingNames == {"full", "dyadic", "octave"}

GftInit ==
    /\ pc = "gft"
    /\ err = "none"
    /\ \/ /\ x \in UNION {Signals(n) : n \in 1..MaxN}
          /\ window \in WindowNames
          /\ sampling \in SamplingNames
          /\ full \in BOOLEAN
          /\ hanning \in BOOLEAN
       \/ /\ x \in UNION {LongSignals(n) : n \in LongLens}
          /\ window = "gaussian"
          /\ sampling = "dyadic"
          /\ full \in BOOLEAN
          /\ hanning = FALSE
    /\ sig = Scaled(x)
    /\ analytic = FALSE
    /\ sig_mean = [num |-> 0, den |-> 1]
    /\ ft = "none"
    /\ f_centre = <<>> /\ f_start = <<>> /\ f_end = <<>>
    /\ k = 1
    /\ Coords = <<>>
    /\ S = <<>>

\* ------------------------------------------------------------ gft: actions
\* lines 120-122
Detrend ==
    /\ pc = "gft"
    /\ sig' = Detrended(sig)
    /\ pc' = "detrended"
    /\ UNCHANGED <<interpVars, err, x, window, sampling, full, hanning, analytic, sig_mean, ft,
                   f_centre, f_start, f_end, k, Coords, S>>

\* lines 123-135
Taper ==
    /\ pc = "detrended"
    /\ IF ~hanning
       THEN /\ pc' = "tapered"
            /\ UNCHANGED <<sig, err>>
       ELSE IF TaperTailOk(N, HannN(N))
       THEN /\ sig' = TaperTail(TaperHead(sig, HannN(N)), HannN(N))
            /\ pc' = "tapered"
            /\ UNCHANGED err
       ELSE /\ sig' = TaperHead(sig, HannN(N))
            /\ pc' = "error"
            /\ err' = "ValueError"
    /\ UNCHANGED <<interpVars, x, window, sampling, full, hanning, analytic, sig_mean, ft,
                   f_centre, f_start, f_end, k, Coords, S>>

\* lines 136-137 (the input is real-valued)
Hilbert ==
    /\ pc = "tapered"
    /\ analytic' = ~full
    /\ pc' = "conditioned"
    /\ UNCHANGED <<interpVars, err, x, window, sampling, full, hanning, sig, sig_mean, ft,
                   f_centre, f_start, f_end, k, Coords, S>>

\* lines 138-144
Transform ==
    /\ pc = "conditioned"
    /\ window' = ResolveWindow(window)
    /\ sampling' = ResolveSampling(sampling)
    /\ sig_mean' = Mean(sig)
    /\ ft' = IF \A i \in 1..N : sig[i] = 0 THEN "zero" ELSE "nonzero"
    /\ pc' = "transformed"
    /\ UNCHANGED <<interpVars, err, x, full, hanning, sig, analytic,
                   f_centre, f_start, f_end, k, Coords, S>>

\* lines 146-159
Scheme ==
    /\ pc = "transformed"
    /\ IF ~Callable(sampling)
       THEN /\ pc' = "error"
            /\ err' = "TypeError"
            /\ UNCHANGED <<f_centre, f_start, f_end>>
       ELSE LET b == BandLayout(SchemeOf(sampling), full, N)
            IN  /\ f_centre' = b.centre
                /\ f_start' = b.start
                /\ f_end' = b.end
                /\ pc' = "bands"
                /\ UNCHANGED err
    /\ UNCHANGED <<interpVars, x, window, sampling, full, hanning, sig, analytic, sig_mean, ft,
                   k, Coords, S>>

\* one iteration of the loop of lines 160-195
Band ==
    /\ pc = "bands"
    /\ k <= Len(f_centre)
    /\ LET c == f_centre[k]
           M == Cardinality(Indices(N, c, f_start[k], f_end[k]))
       IN  IF c /= 0 /\ ~Callable(window)
           THEN /\ pc' = "error"
                /\ err' = "TypeError"
                /\ UNCHANGED <<k, Coords, S>>
           ELSE IF M = 0
           THEN /\ pc' = "error"
                /\ err' = IF c = 0 THEN "ZeroDivisionError" ELSE "ValueError"
                /\ UNCHANGED <<k, Coords, S>>
           ELSE /\ Coords' = Coords \o BandCoords(N, c, M)
                /\ S' = S \o BandSamples(c, M, sig_mean, ft = "zero")
                /\ k' = k + 1
                /\ UNCHANGED <<pc, err>>
    /\ UNCHANGED <<interpVars, x, window, sampling, full, hanning, sig, analytic, sig_mean, ft,
                   f_centre, f_start, f_end>>

\* lines 196-198
Return ==
    /\ pc = "bands"
    /\ k > Len(f_centre)
    /\ pc' = "done"
    /\ UNCHANGED <<interpVars, err, x, window, sampling, full, hanning, sig, analytic, sig_mean, ft,
                   f_centre, f_start, f_end, k, Coords, S>>

GftNext == Detrend \/ Taper \/ Hilbert \/ Transform \/ Scheme \/ Band \/ Return


\* ------------------------------------------------------------ interpolate_gft: helpers
\* exact rationals [num, den] with den > 0
Rat(n, d) == [num |-> n, den |-> d]

RatLess(a, b) == a.num * b.den < b.num * a.den

RatEq(a, b) == a.num * b.den = b.num * a.den

\* (a + b) / 2
RatMid(a, b) == Rat(a.num * b.den + b.num * a.den, 2 * a.den * b.den)

\* the Python slice a[lo:hi] for 0 <= lo, 0 <= hi (0-based, clamped to the length)
Slice(a, lo, hi) == SubSeq(a, lo + 1, IF hi <= Len(a) THEN hi ELSE Len(a))

\* numpy.linspace(lo, hi, n): entry j (1-based) is lo + (j-1)(hi-lo)/(n-1)
linspace(lo, hi, n) ==
    [j \in 1..n |-> IF n = 1 THEN Rat(lo, 1) ELSE Rat(lo * (n - 1) + (j - 1) * (hi - lo), n - 1)]

\* the distinct values of a sequence in order of first occurrence:
\* f, f_indices = unique(Coords[0], return_index=True); f = f[argsort(f_indices)]
RECURSIVE FirstOccurrences(_)
FirstOccurrences(s) ==
    IF s = <<>> THEN <<>>
    ELSE LET r == FirstOccurrences(SubSeq(s, 1, Len(s) - 1))
         IN  IF s[Len(s)] \in Range(r) THEN r ELSE Append(r, s[Len(s)])

\* argsort of a sequence of distinct integers, as 1-based positions
argsort(s) ==
    LET sorted == Sort(s)
    IN  [i \in 1..Len(s) |-> CHOOSE p \in 1..Len(s) : s[p] = sorted[i]]

\* where(diff(row) != 0)[0] + 1, ascending (from 1-based position p on)
RECURSIVE ChangesFrom(_, _)
ChangesFrom(row, p) ==
    IF p >= Len(row) THEN <<>>
    ELSE IF row[p] /= row[p + 1] THEN <<p>> \o ChangesFrom(row, p + 1)
    ELSE ChangesFrom(row, p + 1)

ChangePoints(row) == ChangesFrom(row, 1)

\* f_indices = hstack([0, where(diff(Coords[0]) != 0)[0] + 1, len(S)])
RunBounds(row, lenS) == <<0>> \o ChangePoints(row) \o <<lenS>>

FreqRow(coords) == [i \in 1..Len(coords) |-> coords[i].f]

TimeRow(coords) == [i \in 1..Len(coords) |-> Rat(coords[i].num, coords[i].den)]

\* lines 248-253: the clamped boundary points
ExtendX(xs, dl) ==
    LET x1 == IF xs[1].num /= 0 THEN <<Rat(0, 1)>> \o xs ELSE xs
    IN  IF ~RatEq(x1[Len(x1)], Rat(dl, 1)) THEN Append(x1, Rat(dl, 1)) ELSE x1

ExtendY(xs, ys, dl) ==
    LET x1 == IF xs[1].num /= 0 THEN <<Rat(0, 1)>> \o xs ELSE xs
        y1 == IF xs[1].num /= 0 THEN <<ys[1]>> \o ys ELSE ys
    IN  IF ~RatEq(x1[Len(x1)], Rat(dl, 1)) THEN Append(y1, y1[Len(y1)]) ELSE y1

\* how lines 246-254 end for one run: x[0], y[0], y[-1] of an empty array
\* raise IndexError, interp1d raises ValueError on unequal lengths
RunStatus(xs, ys, dl) ==
    IF xs = <<>> THEN "IndexError"
    ELSE IF ys = <<>> THEN "IndexError"
    ELSE IF Len(ExtendX(xs, dl)) /= Len(ExtendY(xs, ys, dl)) THEN "ValueError"
    ELSE "ok"

\* interp1d sorts its sample points: insertion sort of (x, y) pairs by x
RECURSIVE InsertPt(_, _)
InsertPt(p, s) ==
    IF s = <<>> THEN <<p>>
    ELSE IF ~RatLess(Head(s).x, p.x) THEN <<p>> \o s
    ELSE <<Head(s)>> \o InsertPt(p, Tail(s))

RECURSIVE SortPts(_)
SortPts(s) == IF s = <<>> THEN <<>> ELSE InsertPt(Head(s), SortPts(Tail(s)))

Points(xs, ys) == SortPts([i \in 1..Len(xs) |-> [x |-> xs[i], y |-> ys[i]]])

\* interp1d(kind='nearest'): searchsorted of the midpoints, side 'left'
NearestIndex(pts, v) ==
    LET below == Cardinality({i \in 1..(Len(pts) - 1) : RatLess(RatMid(pts[i].x, pts[i + 1].x), v)})
    IN  below + 1

\* interp1d(kind='linear'): upper bracket searchsorted(x, v) clipped to 1..len-1
LinearHi(pts, v) ==
    LET below == Cardinality({i \in 1..Len(pts) : RatLess(pts[i].x, v)})
    IN  IF below < 1 THEN 2 ELSE IF below > Len(pts) - 1 THEN Len(pts) ELSE below + 1

\* the interpolant at v: the value lo + (hi - lo) * (v - x_lo)/(x_hi - x_lo),
\* kept as the two samples and the query point
Interp(pts, kind, v) ==
    IF kind = "nearest"
    THEN [lo |-> pts[NearestIndex(pts, v)].y, hi |-> pts[NearestIndex(pts, v)].y, at |-> v]
    ELSE [lo |-> pts[LinearHi(pts, v) - 1].y, hi |-> pts[LinearHi(pts, v)].y, at |-> v]

\* wanted_freqs.clip(f.min(), f.max()) on one value
Clip(v, lo, hi) == IF RatLess(v, Rat(lo, 1)) THEN Rat(lo, 1)
                   ELSE IF RatLess(Rat(hi, 1), v) THEN Rat(hi, 1) ELSE v


\* ------------------------------------------------------------ interpolate_gft: inputs
vars == <<pc, err, gftVars, interpVars>>

\* argument data_len: the length of the initial data
data_len == N

Kinds == {"nearest", "linear"}

Shapes == {<<F, T>> : F \in 1..MaxDim, T \in 1..MaxDim}

\* a sample the caller supplies beyond those gft returned
Pad == [f |-> 0, j |-> 0, exact |-> FALSE, num |-> 0, den |-> 1]

\* the S the caller passes: the S of gft, or that S with up to MaxDrop
\* samples dropped from or added to its end
PassedS(d) ==
    IF d <= 0 THEN SubSeq(S, 1, Len(S) + d) ELSE S \o [j \in 1..d |-> Pad]

InterpInit ==
    /\ iS = <<>>
    /\ IM_shape = <<0, 0>>
    /\ kindf = "nearest" /\ kindt = "nearest"
    /\ f = <<>> /\ f_order = <<>> /\ f_indices = <<>>
    /\ wanted_times = <<>> /\ wanted_freqs = <<>>
    /\ IM_temp = <<>>
    /\ ik = 1
    /\ IM = <<>>

Init == GftInit /\ InterpInit

\* ------------------------------------------------------------ interpolate_gft: actions
\* the r-th run of lines 246-247 (r 1-based)
RunX(r) == Slice(TimeRow(Coords), f_indices[r], f_indices[r + 1])

RunY(r) == Slice(iS, f_indices[r], f_indices[r + 1])

\* lines 227-244, on the output of a finished gft call
InterpCall ==
    /\ pc = "done"
    /\ \E d \in (-1 * MaxDrop)..MaxDrop, shp \in Shapes, kf \in Kinds, kt \in Kinds :
          /\ iS' = PassedS(d)
          /\ IM_shape' = shp
          /\ kindf' = kf
          /\ kindt' = kt
          /\ f_indices' = RunBounds(FreqRow(Coords), Len(PassedS(d)))
          /\ wanted_times' = linspace(0, data_len, shp[2])
    /\ f' = FirstOccurrences(FreqRow(Coords))
    /\ f_order' = argsort(f')
    /\ wanted_freqs' =
          IF MinOf(f') >= 0 THEN linspace(0, data_len \div 2, IM_shape'[1])
          ELSE linspace(-1 * (data_len \div 2), data_len \div 2, IM_shape'[1])
    /\ IM_temp' = <<>>
    /\ ik' = 1
    /\ pc' = "interp_time"
    /\ UNCHANGED <<err, gftVars, IM>>

\* one iteration of the loop of lines 245-255
InterpRow ==
    /\ pc = "interp_time"
    /\ ik <= Len(f)
    /\ LET st == RunStatus(RunX(ik), RunY(ik), data_len)
       IN  IF st /= "ok"
           THEN /\ pc' = "error"
                /\ err' = st
                /\ UNCHANGED <<IM_temp, ik>>
           ELSE LET pts == Points(ExtendX(RunX(ik), data_len),
                                  ExtendY(RunX(ik), RunY(ik), data_len))
                IN  /\ IM_temp' = Append(IM_temp,
                          [j \in 1..IM_shape[2] |-> Interp(pts, kindt, wanted_times[j])])
                    /\ ik' = ik + 1
                    /\ UNCHANGED <<pc, err>>
    /\ UNCHANGED <<gftVars, iS, IM_shape, kindf, kindt, f, f_order, f_indices,
                   wanted_times, wanted_freqs, IM>>

\* the sample points of the frequency interpolation of time column col
FreqPoints(col) ==
    [i \in 1..Len(f) |-> [x |-> Rat(f[f_order[i]], 1), y |-> IM_temp[f_order[i]][col]]]

\* lines 257-261; interp1d of kind 'nearest' or 'linear' needs at least two
\* sample points and raises ValueError on a single distinct frequency
InterpCols ==
    /\ pc = "interp_time"
    /\ ik > Len(f)
    /\ IF Len(f) < 2
       THEN /\ pc' = "error"
            /\ err' = "ValueError"
            /\ UNCHANGED IM
       ELSE /\ IM' = [r \in 1..IM_shape[1] |-> [col \in 1..IM_shape[2] |->
                        Interp(FreqPoints(col), kindf,
                               Clip(wanted_freqs[r], MinOf(f), MaxOf(f)))]]
            /\ pc' = "interp_done"
            /\ UNCHANGED err
    /\ UNCHANGED <<gftVars, iS, IM_shape, kindf, kindt, f, f_order, f_indices,
                   wanted_times, wanted_freqs, IM_temp, ik>>

Next == Detrend \/ Taper \/ Hilbert \/ Transform \/ Scheme \/ Band \/ Return
          \/ InterpCall \/ InterpRow \/ InterpCols

Spec == Init /\ [][Next]_vars

\* gft alone: the calls of gft, never followed by interpolate_gft
GftSpec == Init /\ [][GftNext]_vars


\* ============================================================ properties
Bins == Range(fftfreq(N))

BuiltIn == sampling \in {"_dyadic", "_full_sampling"}

\* the band arrays have been computed
Laid == pc \in {"bands", "done"}

\* number of columns of Coords with frequency c
ColumnsAt(c) == Cardinality({i \in DOMAIN Coords : Coords[i].f = c})

\* the bins selected by band i of the current call
SelectedBins(i) == BandBins(N, f_centre[i], f_start[i], f_end[i])

\* every bin lies in exactly one band: the bands' bins cover the bins and
\* their sizes add up to the number of bins
ExactCover ==
    /\ UNION {SelectedBins(i) : i \in DOMAIN f_centre} = Bins
    /\ SumSeq([i \in DOMAIN f_centre |-> Cardinality(SelectedBins(i))]) = Cardinality(Bins)

\* N = 2^j + 1 for some j >= 1
Pow2PlusOne(n) == n >= 3 /\ Pow2(CeilLog2(n - 1)) = n - 1

\* C1: with sampling='full' and full=True a returned result has N bands, one
\* per FFT bin, of N samples each: Coords and S have N*N entries, entry
\* r*N + t is the sample of the r-th centre at time slot t (time t + 1/2),
\* and every (centre, slot) pair occurs exactly once.
C1_FullGrid ==
    (pc = "done" /\ sampling = "_full_sampling" /\ full /\ N >= 2) =>
        /\ Len(S) = N * N
        /\ Len(Coords) = N * N
        /\ Len(f_centre) = N
        /\ Range(f_centre) = Bins
        /\ \A r \in 0..(N - 1), s \in 0..(N - 1) :
              /\ Coords[r * N + s + 1].f = f_centre[r + 1]
              /\ 2 * Coords[r * N + s + 1].num = (2 * s + 1) * Coords[r * N + s + 1].den
              /\ S[r * N + s + 1].f = f_centre[r + 1]
              /\ S[r * N + s + 1].j = s + 1
        /\ \A c \in Bins, s \in 0..(N - 1) :
              Cardinality({i \in DOMAIN Coords :
                  Coords[i].f = c /\ 2 * Coords[i].num = (2 * s + 1) * Coords[i].den}) = 1

C1_Witness ==
    pc = "done" /\ sampling = "_full_sampling" /\ full /\ N >= 4 /\ Len(S) = N * N

C3_Original ==
    pc = "done" =>
        /\ \A i \in DOMAIN S :
              S[i].f = 0 => (S[i].exact /\ S[i].num * N = SumSeq(x) * S[i].den)
        /\ ((\A i \in 1..N : x[i] = 1) /\ sampling = "_full_sampling" /\ ~hanning /\ full) =>
              \A i \in DOMAIN S :
                  /\ S[i].exact
                  /\ S[i].f = 0 => S[i].num = S[i].den
                  /\ S[i].f /= 0 => S[i].num = 0

\* C4 as stated: with full=True every non-zero frequency c of Coords has its
\* mirror -c in Coords, with as many columns.
C4_Original ==
    (pc = "done" /\ BuiltIn /\ full /\ N >= 2) =>
        \A i \in DOMAIN Coords :
            Coords[i].f /= 0 =>
                /\ ColumnsAt(-1 * Coords[i].f) > 0
                /\ ColumnsAt(-1 * Coords[i].f) = ColumnsAt(Coords[i].f)

\* C4 amended: with full=True, under full sampling every non-zero frequency
\* c of Coords other than the Nyquist bin -N/2 of an even N has its mirror
\* -c in Coords with as many columns, and the Nyquist bin has none; under
\* dyadic sampling every frequency c of Coords has its mirror -c in Coords,
\* with as many columns when N is even.
C4_Mirror ==
    (pc = "done" /\ BuiltIn /\ full /\ N >= 2) =>
        \A i \in DOMAIN Coords :
            LET c == Coords[i].f
            IN  IF sampling = "_full_sampling"
                THEN IF 2 * c = -1 * N
                     THEN ColumnsAt(-1 * c) = 0
                     ELSE c /= 0 => ColumnsAt(-1 * c) = ColumnsAt(c)
                ELSE /\ ColumnsAt(-1 * c) > 0
                     /\ N % 2 = 0 => ColumnsAt(-1 * c) = ColumnsAt(c)

C4_Witness ==
    /\ pc = "done" /\ sampling = "_dyadic" /\ full /\ N >= 8 /\ N % 2 = 0
    /\ \E i \in DOMAIN Coords : Coords[i].f < 0 /\ ColumnsAt(Coords[i].f) >= 2

\* C5 as stated: a call with an unrecognised window or sampling name never
\* returns, and it fails before any band has been processed.
C5_Original ==
    (window = "boxcar" \/ sampling = "octave") =>
        /\ pc /= "done"
        /\ Coords = <<>>

\* C6 as stated: interpolate_gft called with a Coords and an S of different
\* lengths never returns a grid.
C6_Original ==
    (pc \in {"interp_time", "interp_done"} /\ Len(iS) /= Len(Coords)) =>
        pc /= "interp_done"

\* C7 as stated: with full=True the bins selected by the bands partition the
\* N bins, and under full sampling there are N bands of one bin each.
C7_Original ==
    (Laid /\ BuiltIn /\ full /\ N >= 2) =>
        /\ ExactCover
        /\ sampling = "_full_sampling" =>
              /\ Len(f_centre) = N
              /\ \A i \in DOMAIN f_centre : Cardinality(SelectedBins(i)) = 1

\* C7 amended: with full=True, under dyadic sampling every bin is selected by
\* exactly one band; under full sampling there are N bands and each selects
\* all N bins.
C7_Partition ==
    (Laid /\ BuiltIn /\ full /\ N >= 2) =>
        IF sampling = "_dyadic"
        THEN ExactCover
        ELSE /\ Len(f_centre) = N
             /\ \A i \in DOMAIN f_centre : SelectedBins(i) = Bins

C7_Witness ==
    /\ Laid /\ sampling = "_dyadic" /\ full /\ N >= 8
    /\ \E i \in DOMAIN f_centre : Cardinality(SelectedBins(i)) >= 2

\* the frequency bin that index i of the spectrum rolled by -c holds
BinAt(i, c) == fftfreq(N)[((i + c) % N) + 1]

\* C8 as stated: a band with start s <= end e selects the bins in [s, e); a
\* band with s > e selects the bins that are not in [e, s).
C8_Original ==
    (Laid /\ BuiltIn) =>
        \A i \in DOMAIN f_centre :
            LET s == f_start[i]
                e == f_end[i]
            IN  SelectedBins(i) =
                    IF s <= e THEN {b \in Bins : s <= b /\ b < e}
                    ELSE {b \in Bins : ~(e <= b /\ b < s)}

\* C8 amended: a band with centre c, start s and end e selects the indices
\* whose bin, in the spectrum shifted by the centre, lies in [s, e) when
\* s <= e and in [e, s) when s > e; its bins are exactly those of that range.
C8_Selection ==
    (Laid /\ BuiltIn) =>
        \A i \in DOMAIN f_centre :
            LET c == f_centre[i]
                s == f_start[i]
                e == f_end[i]
                lo == IF s <= e THEN s ELSE e
                hi == IF s <= e THEN e ELSE s
            IN  /\ Indices(N, c, s, e) =
                       {n \in 0..(N - 1) : lo <= BinAt(n, c) /\ BinAt(n, c) < hi}
                /\ SelectedBins(i) = {b \in Bins : lo <= b /\ b < hi}

C8_Witness ==
    /\ Laid /\ BuiltIn
    /\ \E i \in DOMAIN f_centre :
          f_start[i] > f_end[i] /\ Cardinality(SelectedBins(i)) >= 2

\* C9 as stated: a returned Coords has as many columns as S has samples,
\* column i carries the frequency of the band of sample i, every frequency
\* occupies one contiguous run, and in interpolate_gft the runs of the scan
\* are as many as the distinct frequencies, the r-th run holding the r-th
\* frequency in Coords and in S.
C9_Original ==
    /\ pc = "done" =>
          /\ Len(Coords) = Len(S)
          /\ \A i \in DOMAIN S : i <= Len(Coords) => Coords[i].f = S[i].f
          /\ Len(ChangePoints(FreqRow(Coords))) + 1 = Cardinality(Range(FreqRow(Coords)))
    /\ (pc = "interp_time" /\ Len(iS) = Len(S)) =>
          /\ Len(f_indices) = Len(f) + 1
          /\ \A r \in DOMAIN f :
                /\ \A i \in (f_indices[r] + 1)..f_indices[r + 1] :
                      i <= Len(Coords) => Coords[i].f = f[r]
                /\ \A i \in DOMAIN RunY(r) : RunY(r)[i].f = f[r]

\* the samples the taper leaves alone: all but the first and last H/2
Untapered(n) == {i \in 1..n : i > HannN(n) \div 2 /\ i <= n - HannN(n) \div 2}

\* C10 as stated: with hanning=True the taper step changes no sample other
\* than the first and the last H/2, and the call goes on to the transform.
C10_Original ==
    [][(pc = "detrended" /\ hanning) =>
          /\ pc' = "tapered"
          /\ \A i \in Untapered(N) : sig'[i] = sig[i]]_vars

=============================================================================
